---- MODULE Spec2Model ----
(***************************************************************************)
(* A model of todoist_rich.py: credential normalization and resolution,    *)
(* the Windows Credential Manager token store, the due-date grouping       *)
(* pipeline of the upcoming view, and the project-name cache.              *)
(*                                                                         *)
(* Python strings are sequences of one-character strings.  The code tests  *)
(* optional strings only for truthiness (`if not token`, `token or None`,  *)
(* `if date:`), so None and "" are one value here, the empty sequence.     *)
(***************************************************************************)
EXTENDS Integers, Sequences, FiniteSets, TLC

VARIABLES platform, apiUp, store, pc, last, tasks, view,
          service, cache, fetches, lookups, looked

vars == <<platform, apiUp, store, pc, last, tasks, view,
          service, cache, fetches, lookups, looked>>

\* The variables of the due-date pipeline.
dueVars == <<tasks, view>>

\* The variables of the project-name cache: the projects the service holds,
\* PROJECT_CACHE, the project lists received and the lookups made in this run,
\* and the last lookup.
cacheVars == <<service, cache, fetches, lookups, looked>>

(***************************************************************************)
(* Bounds of the model.                                                    *)
(***************************************************************************)
\* An input string is a concatenation of at most MaxPieces pieces.
MaxPieces == 3

\* A fetched task list holds at most MaxTasks tasks.
MaxTasks == 3

\* The service holds projects with ids 1..MaxProjects.
MaxProjects == 2

\* One run looks up at most MaxLookups project names.
MaxLookups == 3

(***************************************************************************)
(* Strings.                                                                *)
(***************************************************************************)
None == <<>>

Truthy(s) == s # <<>>

\* The characters str.strip() removes, among those of the model's alphabet.
Whitespace == {" ", "\t"}

RECURSIVE LStrip(_)
LStrip(s) ==
    IF s # <<>> /\ Head(s) \in Whitespace THEN LStrip(Tail(s)) ELSE s

RECURSIVE RStrip(_)
RStrip(s) ==
    IF s # <<>> /\ s[Len(s)] \in Whitespace
    THEN RStrip(SubSeq(s, 1, Len(s) - 1))
    ELSE s

\* str.strip()
Strip(s) == RStrip(LStrip(s))

\* str.startswith(p)
StartsWith(s, p) == Len(s) >= Len(p) /\ SubSeq(s, 1, Len(p)) = p

\* s.split(" ", 1)[1] for an s that holds a space: what follows the first space.
RECURSIVE AfterFirstSpace(_)
AfterFirstSpace(s) ==
    IF s = <<>> THEN <<>>
    ELSE IF Head(s) = " " THEN Tail(s)
    ELSE AfterFirstSpace(Tail(s))

BearerUpper == <<"B", "e", "a", "r", "e", "r", " ">>
BearerLower == <<"b", "e", "a", "r", "e", "r", " ">>

\* _normalize_token
NormalizeToken(token) ==
    IF ~Truthy(token) THEN None
    ELSE LET t == Strip(token) IN
         IF StartsWith(t, BearerUpper) \/ StartsWith(t, BearerLower)
         THEN Strip(AfterFirstSpace(t))
         ELSE t

(***************************************************************************)
(* UTF-16-LE: every character of the alphabet is one code unit, written as *)
(* its low byte and then its high byte.                                    *)
(***************************************************************************)
CodePoint ==
    ("\t" :> 9) @@ (" " :> 32) @@ ("B" :> 66) @@ ("E" :> 69) @@ ("A" :> 65) @@
    ("R" :> 82) @@ ("a" :> 97) @@ ("b" :> 98) @@ ("e" :> 101) @@ ("r" :> 114) @@
    ("x" :> 120) @@ ("y" :> 121) @@ ("?" :> 65533) @@
    ("0" :> 48) @@ ("1" :> 49) @@ ("2" :> 50) @@ ("3" :> 51) @@ ("4" :> 52) @@
    ("5" :> 53) @@ ("6" :> 54) @@ ("7" :> 55) @@ ("8" :> 56) @@ ("9" :> 57) @@
    ("+" :> 43) @@ ("-" :> 45) @@ (":" :> 58) @@ ("T" :> 84) @@ ("Z" :> 90) @@
    ("d" :> 100) @@ ("n" :> 110) @@ ("o" :> 111) @@ ("t" :> 116)

RECURSIVE EncodeUtf16le(_)
EncodeUtf16le(s) ==
    IF s = <<>> THEN <<>>
    ELSE <<CodePoint[Head(s)] % 256, CodePoint[Head(s)] \div 256>>
         \o EncodeUtf16le(Tail(s))

\* The character of each code unit (@@ <<>> leaves the function as it is, and
\* has TLC work the table out once).
CharOfUnit ==
    [u \in {CodePoint[c] : c \in DOMAIN CodePoint} |->
        CHOOSE c \in DOMAIN CodePoint : CodePoint[c] = u] @@ <<>>

\* A code unit that is no character of the alphabet decodes to U+FFFD.
CharOf(unit) ==
    IF unit \in DOMAIN CharOfUnit THEN CharOfUnit[unit] ELSE "?"

\* bytes.decode("utf-16-le", errors="replace"): a trailing odd byte is replaced.
RECURSIVE DecodeUtf16le(_)
DecodeUtf16le(blob) ==
    IF blob = <<>> THEN <<>>
    ELSE IF Len(blob) = 1 THEN <<"?">>
    ELSE <<CharOf(blob[1] + 256 * blob[2])>>
         \o DecodeUtf16le(SubSeq(blob, 3, Len(blob)))

(***************************************************************************)
(* Inputs: every concatenation of at most n pieces.                        *)
(***************************************************************************)
RECURSIVE Concats(_, _)
Concats(P, n) ==
    IF n = 0 THEN {<<>>}
    ELSE LET S == Concats(P, n - 1) IN S \cup {s \o p : s \in S, p \in P}

BearerCaps == <<"B", "E", "A", "R", "E", "R", " ">>
BearerMixed == <<"b", "E", "a", "R", "e", "R", " ">>

\* Token strings given to the store and to resolution.
TokenPieces == {BearerUpper, BearerLower, <<" ">>, <<"x">>}
TokenInputs == Concats(TokenPieces, MaxPieces)

\* Token strings given to the normalizer alone.
NormPieces ==
    {BearerUpper, BearerLower, BearerCaps, BearerMixed, <<" ">>, <<"\t">>, <<"x">>}
NormInputs == Concats(NormPieces, MaxPieces)

\* Values of TODOIST_API_TOKEN and TODOIST_TOKEN in the process environment.
EnvValues == {None, <<"y">>}

(***************************************************************************)
(* The Windows Credential Manager store: one entry under the target name.  *)
(***************************************************************************)
EmptyStore == [present |-> FALSE, blob |-> <<>>]

\* _wcm_read_token: None off Windows, when the API faults, when CredReadW
\* finds no entry and when the blob is empty; else the decoded, normalized blob.
WcmReadToken(plat, up, st) ==
    IF plat # "nt" THEN None
    ELSE IF ~up THEN None
    ELSE IF ~st.present THEN None
    ELSE IF st.blob = <<>> THEN None
    ELSE NormalizeToken(DecodeUtf16le(st.blob))

\* A write without the "Token is empty." check.
WcmWriteTokenNoEmptyCheck(plat, up, st, token, overwrite, credWriteOk) ==
    IF plat # "nt" THEN [result |-> "not_windows", store |-> st]
    ELSE LET token_norm == NormalizeToken(token)
             existing == WcmReadToken(plat, up, st)
         IN  IF Truthy(existing) /\ ~overwrite
             THEN [result |-> "already_stored", store |-> st]
             ELSE IF ~up \/ ~credWriteOk
             THEN [result |-> "write_failed", store |-> st]
             ELSE [result |-> "stored",
                   store |-> [present |-> TRUE,
                              blob |-> EncodeUtf16le(token_norm)]]

\* _wcm_write_token: the RuntimeError raised, or "stored" and the new entry.
WcmWriteToken(plat, up, st, token, overwrite, credWriteOk) ==
    IF plat # "nt" THEN [result |-> "not_windows", store |-> st]
    ELSE LET token_norm == NormalizeToken(token) IN
         IF ~Truthy(token_norm) THEN [result |-> "token_empty", store |-> st]
         ELSE LET existing == WcmReadToken(plat, up, st) IN
              IF Truthy(existing) /\ ~overwrite
              THEN [result |-> "already_stored", store |-> st]
              ELSE IF ~up \/ ~credWriteOk
              THEN [result |-> "write_failed", store |-> st]
              ELSE [result |-> "stored",
                    store |-> [present |-> TRUE,
                               blob |-> EncodeUtf16le(token_norm)]]

\* A delete that reports success without removing the entry.
WcmDeleteTokenKeep(plat, up, st) ==
    IF plat # "nt" \/ ~up THEN [ret |-> FALSE, store |-> st]
    ELSE [ret |-> st.present, store |-> st]

\* _wcm_delete_token: CredDeleteW's answer, False off Windows or on a fault.
WcmDeleteToken(plat, up, st) ==
    IF plat # "nt" THEN [ret |-> FALSE, store |-> st]
    ELSE IF ~up THEN [ret |-> FALSE, store |-> st]
    ELSE [ret |-> st.present, store |-> EmptyStore]

\* _find_api_token: returns the store's answer; the file chain after the
\* return statement is never reached.
FindApiToken(plat, up, st) == WcmReadToken(plat, up, st)

AuthScheme == <<"B", "e", "a", "r", "e", "r", " ">>

\* A resolution that asks the store first and the explicit token second.
GetHeadersStoreFirst(token, plat, up, st) ==
    LET found == FindApiToken(plat, up, st)
        resolved == IF Truthy(found) THEN found ELSE NormalizeToken(token)
    IN  IF ~Truthy(resolved)
        THEN [exit |-> TRUE, cred |-> None, auth |-> None, storeReads |-> 1]
        ELSE [exit |-> FALSE, cred |-> resolved, auth |-> AuthScheme \o resolved,
              storeReads |-> 1]

\* A resolution that sends the request with whatever it found.
GetHeadersNoExit(token, plat, up, st) ==
    LET explicit == NormalizeToken(token)
        resolved == IF Truthy(explicit) THEN explicit
                    ELSE FindApiToken(plat, up, st)
    IN  [exit |-> FALSE, cred |-> resolved, auth |-> AuthScheme \o resolved,
         storeReads |-> IF Truthy(explicit) THEN 0 ELSE 1]

\* _get_headers: `_normalize_token(token) or _find_api_token()`; sys.exit(1)
\* when nothing resolved, else the Authorization header.
GetHeaders(token, plat, up, st) ==
    LET explicit == NormalizeToken(token)
        resolved == IF Truthy(explicit) THEN explicit
                    ELSE FindApiToken(plat, up, st)
        storeReads == IF Truthy(explicit) THEN 0 ELSE 1
    IN  IF ~Truthy(resolved)
        THEN [exit |-> TRUE, cred |-> None, auth |-> None,
              storeReads |-> storeReads]
        ELSE [exit |-> FALSE, cred |-> resolved, auth |-> AuthScheme \o resolved,
              storeReads |-> storeReads]

(***************************************************************************)
(* One process run: a command is taken from "idle" to "done", and `last`   *)
(* records its arguments, its environment and what it did.  Only the store *)
(* outlives the run.                                                       *)
(***************************************************************************)
NoEnv == [TODOIST_API_TOKEN |-> None, TODOIST_TOKEN |-> None]

\* Nothing fetched, nothing shown.
BlankView == [result |-> "none", groups |-> <<>>, shown |-> <<>>]

BlankLast ==
    [op |-> "none", token |-> None, force |-> FALSE, credWriteOk |-> FALSE,
     env |-> NoEnv, result |-> "none", cred |-> None, auth |-> None,
     storeReads |-> 0, prev |-> EmptyStore, envSet |-> FALSE, wcmSet |-> FALSE]

Environments == [TODOIST_API_TOKEN : EnvValues, TODOIST_TOKEN : EnvValues]

\* os.getenv("TODOIST_API_TOKEN") or os.getenv("TODOIST_TOKEN")
EnvToken(env) ==
    IF Truthy(env.TODOIST_API_TOKEN) THEN env.TODOIST_API_TOKEN
    ELSE env.TODOIST_TOKEN

\* PROJECT_CACHE = {}: a dict from project id to name, here a function on the
\* ids it holds.
EmptyCache == [id \in {} |-> <<>>]

\* No lookup made yet.
BlankLooked ==
    [id |-> 0, ret |-> <<>>, hit |-> FALSE, fetched |-> FALSE,
     list |-> EmptyCache, prev |-> EmptyCache]

\* A process starts with an empty PROJECT_CACHE.
FreshCache ==
    /\ cache = EmptyCache
    /\ fetches = 0
    /\ lookups = 0
    /\ looked = BlankLooked

\* cmd_token, "set": args.token, or the prompted text when it is empty.
CmdTokenSet ==
    /\ pc = "idle"
    /\ \E argToken \in TokenInputs, force \in BOOLEAN, credWriteOk \in BOOLEAN :
       \E typed \in (IF Truthy(argToken) THEN {None} ELSE TokenInputs) :
          LET token == IF Truthy(argToken) THEN argToken ELSE typed
              w == WcmWriteToken(platform, apiUp, store, token, force, credWriteOk)
          IN  /\ store' = w.store
              /\ last' = [BlankLast EXCEPT !.op = "set", !.token = token,
                                           !.force = force,
                                           !.credWriteOk = credWriteOk,
                                           !.result = w.result, !.prev = store]
    /\ pc' = "done"
    /\ UNCHANGED <<platform, apiUp, dueVars, cacheVars>>

\* cmd_token, "clear"
CmdTokenClear ==
    /\ pc = "idle"
    /\ LET d == WcmDeleteToken(platform, apiUp, store)
       IN  /\ store' = d.store
           /\ last' = [BlankLast EXCEPT !.op = "clear",
                                        !.result = IF d.ret THEN "deleted"
                                                   ELSE "not_found",
                                        !.prev = store]
    /\ pc' = "done"
    /\ UNCHANGED <<platform, apiUp, dueVars, cacheVars>>

\* cmd_token, "status"
CmdTokenStatus ==
    /\ pc = "idle"
    /\ \E env \in Environments :
          LET envSet == Truthy(NormalizeToken(EnvToken(env)))
              wcmSet == Truthy(WcmReadToken(platform, apiUp, store))
          IN  last' = [BlankLast EXCEPT !.op = "status", !.env = env,
                                        !.envSet = envSet, !.wcmSet = wcmSet,
                                        !.result = IF ~envSet /\ ~wcmSet
                                                   THEN "no_token_configured"
                                                   ELSE "configured",
                                        !.prev = store]
    /\ pc' = "done"
    /\ UNCHANGED <<platform, apiUp, store, dueVars, cacheVars>>

\* A command that sends one authenticated request: headers are resolved from
\* `token`, and sys.exit(1) ends the run before the request when nothing resolves.
Authenticated(op, token, env) ==
    LET h == GetHeaders(token, platform, apiUp, store)
    IN  /\ last' = [BlankLast EXCEPT !.op = op, !.token = token, !.env = env,
                                     !.result = IF h.exit THEN "exit"
                                                ELSE "sent",
                                     !.cred = h.cred, !.auth = h.auth,
                                     !.storeReads = h.storeReads,
                                     !.prev = store]
        /\ pc' = "done"
        /\ UNCHANGED <<platform, apiUp, store, dueVars, cacheVars>>

\* cmd_complete: headers=_get_headers(args.token)
CmdComplete ==
    /\ pc = "idle"
    /\ \E token \in TokenInputs, env \in Environments :
          Authenticated("complete", token, env)

\* cmd_projects: headers=_get_headers()
CmdProjects ==
    /\ pc = "idle"
    /\ \E env \in Environments : Authenticated("projects", None, env)

\* The process ends; the next run starts with nothing but the store.
Exit ==
    /\ pc = "done"
    /\ pc' = "idle"
    /\ last' = BlankLast
    /\ tasks' = <<>>
    /\ view' = BlankView
    /\ cache' = EmptyCache
    /\ fetches' = 0
    /\ lookups' = 0
    /\ looked' = BlankLooked
    /\ UNCHANGED <<platform, apiUp, store, service>>

\* os.name and the credential API belong to the machine and the logon
\* session, not to one run: off Windows, or in a session without a credential
\* set (apiUp false: every Cred* call fails), no entry can be written or seen.
\* CredWriteW alone can also fail for one call (credWriteOk false), as for a
\* blob it refuses.
Init ==
    /\ platform \in {"nt", "posix"}
    /\ apiUp \in BOOLEAN
    /\ store = EmptyStore
    /\ pc = "idle"
    /\ last = BlankLast
    /\ tasks = <<>>
    /\ view = BlankView
    /\ service = EmptyCache
    /\ FreshCache

Next ==
    \/ CmdTokenSet
    \/ CmdTokenClear
    \/ CmdTokenStatus
    \/ CmdComplete
    \/ CmdProjects
    \/ Exit

Spec == Init /\ [][Next]_vars

(***************************************************************************)
(* The normalizer alone: a run starts with an input and normalizes it.     *)
(***************************************************************************)
NormalizeStep ==
    /\ pc = "idle"
    /\ last.op = "normalize"
    /\ last' = [last EXCEPT !.cred = NormalizeToken(last.token),
                            !.result = "normalized"]
    /\ pc' = "done"
    /\ UNCHANGED <<platform, apiUp, store, dueVars, cacheVars>>

InitNorm ==
    /\ platform = "nt"
    /\ apiUp = TRUE
    /\ store = EmptyStore
    /\ pc = "idle"
    /\ \E t \in NormInputs : last = [BlankLast EXCEPT !.op = "normalize", !.token = t]
    /\ tasks = <<>>
    /\ view = BlankView
    /\ service = EmptyCache
    /\ FreshCache

NextNorm == NormalizeStep

SpecNorm == InitNorm /\ [][NextNorm]_vars

(***************************************************************************)
(* datetime.fromisoformat, on the forms YYYY-MM-DD and YYYY-MM-DD?HH:MM[:SS]*)
(* with an optional +HH:MM or -HH:MM offset (? is any one character).      *)
(***************************************************************************)
Digits == {"0", "1", "2", "3", "4", "5", "6", "7", "8", "9"}

IsDigits(s) == \A i \in DOMAIN s : s[i] \in Digits

RECURSIVE Num(_)
Num(s) ==
    IF s = <<>> THEN 0
    ELSE 10 * Num(SubSeq(s, 1, Len(s) - 1)) + (CodePoint[s[Len(s)]] - 48)

\* value.replace("Z", "+00:00")
RECURSIVE ReplaceZ(_)
ReplaceZ(s) ==
    IF s = <<>> THEN <<>>
    ELSE (IF Head(s) = "Z" THEN <<"+", "0", "0", ":", "0", "0">> ELSE <<Head(s)>>)
         \o ReplaceZ(Tail(s))

IsLeap(y) == (y % 4 = 0 /\ y % 100 # 0) \/ y % 400 = 0

DaysInMonth(y, m) ==
    IF m = 2 THEN (IF IsLeap(y) THEN 29 ELSE 28)
    ELSE IF m \in {4, 6, 9, 11} THEN 30 ELSE 31

\* What a failed parse (ValueError) is here.
NotParsed ==
    [ok |-> FALSE, year |-> 0, month |-> 0, day |-> 0, hour |-> 0, minute |-> 0,
     second |-> 0, aware |-> FALSE, offset |-> 0]

\* The ten characters YYYY-MM-DD name a day of the calendar.
ValidDatePart(s) ==
    /\ Len(s) = 10
    /\ s[5] = "-" /\ s[8] = "-"
    /\ IsDigits(SubSeq(s, 1, 4)) /\ IsDigits(SubSeq(s, 6, 7))
    /\ IsDigits(SubSeq(s, 9, 10))
    /\ Num(SubSeq(s, 1, 4)) >= 1
    /\ Num(SubSeq(s, 6, 7)) \in 1..12
    /\ Num(SubSeq(s, 9, 10)) >= 1
    /\ Num(SubSeq(s, 9, 10)) <= DaysInMonth(Num(SubSeq(s, 1, 4)), Num(SubSeq(s, 6, 7)))

\* HH:MM or HH:MM:SS
ValidTimePart(s) ==
    /\ Len(s) \in {5, 8}
    /\ s[3] = ":"
    /\ IsDigits(SubSeq(s, 1, 2)) /\ IsDigits(SubSeq(s, 4, 5))
    /\ Num(SubSeq(s, 1, 2)) < 24 /\ Num(SubSeq(s, 4, 5)) < 60
    /\ Len(s) = 8 => /\ s[6] = ":"
                     /\ IsDigits(SubSeq(s, 7, 8))
                     /\ Num(SubSeq(s, 7, 8)) < 60

\* +HH:MM or -HH:MM
ValidOffsetPart(s) ==
    /\ Len(s) = 6
    /\ s[1] \in {"+", "-"}
    /\ s[4] = ":"
    /\ IsDigits(SubSeq(s, 2, 3)) /\ IsDigits(SubSeq(s, 5, 6))
    /\ Num(SubSeq(s, 2, 3)) < 24 /\ Num(SubSeq(s, 5, 6)) < 60

\* Minutes east of UTC.
OffsetMinutes(s) ==
    (IF s[1] = "-" THEN -1 ELSE 1)
        * (60 * Num(SubSeq(s, 2, 3)) + Num(SubSeq(s, 5, 6)))

\* The index of the offset's sign in the time string, 0 when it has none.
SignIndex(s) ==
    IF \E i \in DOMAIN s : s[i] \in {"+", "-"}
    THEN CHOOSE i \in DOMAIN s :
            /\ s[i] \in {"+", "-"}
            /\ \A j \in 1..(i - 1) : s[j] \notin {"+", "-"}
    ELSE 0

\* datetime.fromisoformat(s)
FromIsoFormat(s) ==
    IF Len(s) < 10 \/ ~ValidDatePart(SubSeq(s, 1, 10)) THEN NotParsed
    ELSE LET date == [NotParsed EXCEPT !.ok = TRUE,
                                       !.year = Num(SubSeq(s, 1, 4)),
                                       !.month = Num(SubSeq(s, 6, 7)),
                                       !.day = Num(SubSeq(s, 9, 10))]
         IN  IF Len(s) = 10 THEN date
             ELSE LET rest == SubSeq(s, 12, Len(s))
                      k == SignIndex(rest)
                      time == IF k = 0 THEN rest ELSE SubSeq(rest, 1, k - 1)
                      off == IF k = 0 THEN <<>> ELSE SubSeq(rest, k, Len(rest))
                  IN  IF ~ValidTimePart(time) THEN NotParsed
                      ELSE IF k # 0 /\ ~ValidOffsetPart(off) THEN NotParsed
                      ELSE [date EXCEPT
                              !.hour = Num(SubSeq(time, 1, 2)),
                              !.minute = Num(SubSeq(time, 4, 5)),
                              !.second = IF Len(time) = 8
                                         THEN Num(SubSeq(time, 7, 8)) ELSE 0,
                              !.aware = k # 0,
                              !.offset = IF k = 0 THEN 0 ELSE OffsetMinutes(off)]

DigitChar(n) == CHOOSE c \in Digits : CodePoint[c] = 48 + n

\* "%0<width>d" % n
RECURSIVE ZeroPad(_, _)
ZeroPad(n, width) ==
    IF width = 0 THEN <<>>
    ELSE ZeroPad(n \div 10, width - 1) \o <<DigitChar(n % 10)>>

\* parsed.date().isoformat()
DateIsoFormat(p) ==
    ZeroPad(p.year, 4) \o <<"-">> \o ZeroPad(p.month, 2) \o <<"-">>
        \o ZeroPad(p.day, 2)

(***************************************************************************)
(* Instants: <<day ordinal, second of the day, microsecond>> in UTC, which *)
(* is how two aware datetimes compare.                                     *)
(***************************************************************************)
RECURSIVE DaysBeforeMonth(_, _)
DaysBeforeMonth(y, m) ==
    IF m = 1 THEN 0 ELSE DaysBeforeMonth(y, m - 1) + DaysInMonth(y, m - 1)

Ordinal(y, m, d) ==
    (y - 1) * 365 + ((y - 1) \div 4) - ((y - 1) \div 100) + ((y - 1) \div 400)
        + DaysBeforeMonth(y, m) + d

\* A naive datetime is taken as UTC (dt.replace(tzinfo=timezone.utc)).
UtcInstant(p) ==
    LET total == 3600 * p.hour + 60 * p.minute + p.second
                    - (IF p.aware THEN 60 * p.offset ELSE 0)
    IN  <<Ordinal(p.year, p.month, p.day) + (total \div 86400), total % 86400, 0>>

\* datetime.max.replace(tzinfo=timezone.utc)
DatetimeMax == <<Ordinal(9999, 12, 31), 86399, 999999>>

InstantLess(a, b) ==
    \/ a[1] < b[1]
    \/ a[1] = b[1] /\ a[2] < b[2]
    \/ a[1] = b[1] /\ a[2] = b[2] /\ a[3] < b[3]

(***************************************************************************)
(* Tasks and their due fields.                                             *)
(***************************************************************************)
\* The due values a fetched task may carry.
Day0501 == <<"2", "0", "2", "4", "-", "0", "5", "-", "0", "1">>
Day0502 == <<"2", "0", "2", "4", "-", "0", "5", "-", "0", "2">>
At0430 == <<"T", "0", "4", ":", "3", "0", ":", "0", "0">>
At0800 == <<"T", "0", "8", ":", "0", "0", ":", "0", "0">>
At0900 == <<"T", "0", "9", ":", "0", "0", ":", "0", "0">>
At2330 == <<"T", "2", "3", ":", "3", "0", ":", "0", "0">>
Zulu == <<"Z">>
West5 == <<"-", "0", "5", ":", "0", "0">>
NotADate == <<"n", "o", "t", "-", "a", "-", "d", "a", "t", "e">>

\* due.datetime values that are ISO-8601 date-times.
ValidDatetimes ==
    {Day0501 \o At0800 \o Zulu, Day0501 \o At0900 \o Zulu,
     Day0501 \o At2330 \o West5, Day0502 \o At0430 \o Zulu}

\* "due": null
NullDue == [isNull |-> TRUE, date |-> None, datetime |-> None]

Due(date, datetime) == [isNull |-> FALSE, date |-> date, datetime |-> datetime]

\* No due; a due object with neither field; a day alone; a date-time alone
\* (UTC, or five hours west of it late in the evening, and that same instant
\* written in UTC); a day with its
\* date-time, as the service sends timed tasks; a day with a date-time of
\* another day; text that is no date-time, alone and beside a day.
DueValues ==
    {NullDue, Due(None, None), Due(Day0501, None), Due(Day0502, None)}
        \cup {Due(None, dt) : dt \in ValidDatetimes}
        \cup {Due(Day0501, Day0501 \o At0900 \o Zulu),
              Due(Day0502, Day0501 \o At0800 \o Zulu),
              Due(None, NotADate), Due(Day0501, NotADate)}

\* (task.get("due") or {}).get("date")
DueDate(task) == IF task.due.isNull THEN None ELSE task.due.date

\* (task.get("due") or {}).get("datetime")
DueDatetime(task) == IF task.due.isNull THEN None ELSE task.due.datetime

\* The parse _due_sort_value tries: with Z replaced, then the value as it is.
ParseForSort(value) ==
    IF FromIsoFormat(ReplaceZ(value)).ok THEN FromIsoFormat(ReplaceZ(value))
    ELSE FromIsoFormat(value)

\* A sort value that looks at due.date before due.datetime.
DueSortValueDateFirst(task) ==
    IF Truthy(DueDate(task)) /\ ParseForSort(DueDate(task)).ok
    THEN UtcInstant(ParseForSort(DueDate(task)))
    ELSE IF Truthy(DueDatetime(task)) /\ ParseForSort(DueDatetime(task)).ok
    THEN UtcInstant(ParseForSort(DueDatetime(task)))
    ELSE DatetimeMax

\* _due_sort_value
DueSortValue(task) ==
    IF Truthy(DueDatetime(task)) /\ ParseForSort(DueDatetime(task)).ok
    THEN UtcInstant(ParseForSort(DueDatetime(task)))
    ELSE IF Truthy(DueDate(task)) /\ ParseForSort(DueDate(task)).ok
    THEN UtcInstant(ParseForSort(DueDate(task)))
    ELSE DatetimeMax

\* A key derivation that looks at due.datetime before due.date.
GetDueDayKeyDatetimeFirst(task) ==
    IF Truthy(DueDatetime(task))
          /\ FromIsoFormat(ReplaceZ(DueDatetime(task))).ok
    THEN DateIsoFormat(FromIsoFormat(ReplaceZ(DueDatetime(task))))
    ELSE DueDate(task)

\* _get_due_day_key
GetDueDayKey(task) ==
    IF Truthy(DueDate(task)) THEN DueDate(task)
    ELSE IF ~Truthy(DueDatetime(task)) THEN None
    ELSE LET parsed == FromIsoFormat(ReplaceZ(DueDatetime(task)))
         IN  IF parsed.ok THEN DateIsoFormat(parsed) ELSE None

\* _get_due_day_key and _due_sort_value of a task with each due value (@@ <<>>
\* leaves a function as it is, and has TLC work the table out once).
DueDayKeyOf ==
    [d \in DueValues |-> GetDueDayKey([id |-> 0, due |-> d])] @@ <<>>

DueSortValueOf ==
    [d \in DueValues |-> DueSortValue([id |-> 0, due |-> d])] @@ <<>>

\* _group_tasks_by_due_date: a dict in insertion order, each key with the tasks
\* appended to it in fetch order.
RECURSIVE GroupTasksByDueDate(_)
GroupTasksByDueDate(data) ==
    IF data = <<>> THEN <<>>
    ELSE LET groups == GroupTasksByDueDate(SubSeq(data, 1, Len(data) - 1))
             task == data[Len(data)]
             key == DueDayKeyOf[task.due]
         IN  IF \E i \in DOMAIN groups : groups[i].key = key
             THEN [i \in DOMAIN groups |->
                     IF groups[i].key = key
                     THEN [groups[i] EXCEPT !.entries = Append(@, task)]
                     ELSE groups[i]]
             ELSE Append(groups, [key |-> key, entries |-> <<task>>])

\* a < b for two str
RECURSIVE StrLess(_, _)
StrLess(a, b) ==
    IF b = <<>> THEN FALSE
    ELSE IF a = <<>> THEN TRUE
    ELSE IF Head(a) = Head(b) THEN StrLess(Tail(a), Tail(b))
    ELSE CodePoint[Head(a)] < CodePoint[Head(b)]

\* sorted(groups.keys()): a stable sort, each key put after those not above it.
RECURSIVE SortedKeys(_)
SortedKeys(keys) ==
    IF keys = <<>> THEN <<>>
    ELSE LET done == SortedKeys(SubSeq(keys, 1, Len(keys) - 1))
             x == keys[Len(keys)]
             n == Cardinality({i \in DOMAIN done : ~StrLess(x, done[i])})
         IN  SubSeq(done, 1, n) \o <<x>> \o SubSeq(done, n + 1, Len(done))

\* entries.sort(key=_due_sort_value): stable, ties stay in their order.
RECURSIVE SortedEntries(_)
SortedEntries(entries) ==
    IF entries = <<>> THEN <<>>
    ELSE LET done == SortedEntries(SubSeq(entries, 1, Len(entries) - 1))
             x == entries[Len(entries)]
             n == Cardinality({i \in DOMAIN done :
                     ~InstantLess(DueSortValueOf[x.due],
                                  DueSortValueOf[done[i].due])})
         IN  SubSeq(done, 1, n) \o <<x>> \o SubSeq(done, n + 1, Len(done))

\* groups[due_key]
GroupOf(groups, key) ==
    groups[CHOOSE i \in DOMAIN groups : groups[i].key = key]

\* groups.pop(None, None)
PopNone(groups) == SelectSeq(groups, LAMBDA g : g.key # None)

\* An upcoming view that keeps the undated bucket.
UpcomingViewKeepUndated(data) ==
    LET groups == GroupTasksByDueDate(data)
        ordered == SortedKeys([i \in DOMAIN groups |-> groups[i].key])
    IN  IF groups = <<>>
        THEN [result |-> "no_tasks", groups |-> groups, shown |-> <<>>]
        ELSE [result |-> "rendered", groups |-> groups,
              shown |-> [i \in DOMAIN ordered |->
                           [key |-> ordered[i],
                            entries |-> SortedEntries(
                                          GroupOf(groups, ordered[i]).entries)]]]

\* cmd_upcoming, once the tasks are fetched: group, drop the undated bucket,
\* order the keys, sort each group and print it.
UpcomingView(data) ==
    LET groups == GroupTasksByDueDate(data)
        dated == PopNone(groups)
        ordered == SortedKeys([i \in DOMAIN dated |-> dated[i].key])
    IN  IF groups = <<>>
        THEN [result |-> "no_tasks", groups |-> groups, shown |-> <<>>]
        ELSE IF ordered = <<>>
        THEN [result |-> "no_dated_tasks", groups |-> groups, shown |-> <<>>]
        ELSE [result |-> "rendered", groups |-> groups,
              shown |-> [i \in DOMAIN ordered |->
                           [key |-> ordered[i],
                            entries |-> SortedEntries(
                                          GroupOf(dated, ordered[i]).entries)]]]

(***************************************************************************)
(* The upcoming command.                                                   *)
(***************************************************************************)
\* The task lists of at most n tasks; a task's id is its place in the fetch
\* order.
RECURSIVE TaskLists(_)
TaskLists(n) ==
    IF n = 0 THEN {<<>>}
    ELSE LET shorter == TaskLists(n - 1)
         IN  shorter \cup
               {Append(l, [id |-> n, due |-> d]) :
                  l \in {x \in shorter : Len(x) = n - 1}, d \in DueValues}

\* cmd_upcoming.  The fetch ends the run when no credential resolves
\* (sys.exit in _get_headers), returns None on a request or API error, or
\* returns the task list.  Printing a group looks up each row's project name,
\* and that lookup resolves its own credential from the store alone: when it
\* finds none, the run ends before the first table is printed.
CmdUpcoming ==
    /\ pc = "idle"
    /\ \E fetch \in {"no_credential", "error", "ok"} :
          IF fetch = "no_credential"
          THEN tasks' = <<>> /\ view' = [BlankView EXCEPT !.result = "exit"]
          ELSE IF fetch = "error"
          THEN tasks' = <<>> /\ view' = [BlankView EXCEPT !.result = "fetch_failed"]
          ELSE \E data \in TaskLists(MaxTasks), lookup \in {"resolved", "no_credential"} :
                  LET v == UpcomingView(data)
                  IN  /\ tasks' = data
                      /\ view' = IF v.result = "rendered" /\ lookup = "no_credential"
                                 THEN [v EXCEPT !.result = "exit", !.shown = <<>>]
                                 ELSE v
    /\ pc' = "done"
    /\ last' = [BlankLast EXCEPT !.op = "upcoming"]
    /\ UNCHANGED <<platform, apiUp, store, cacheVars>>

InitDue ==
    /\ platform = "nt"
    /\ apiUp = TRUE
    /\ store = EmptyStore
    /\ pc = "idle"
    /\ last = BlankLast
    /\ tasks = <<>>
    /\ view = BlankView
    /\ service = EmptyCache
    /\ FreshCache

NextDue ==
    \/ CmdUpcoming
    \/ Exit

SpecDue == InitDue /\ [][NextDue]_vars

(***************************************************************************)
(* The project-name cache.                                                 *)
(***************************************************************************)
ProjectIds == 1..MaxProjects

ProjectNames == {<<"a">>, <<"b">>}

\* The projects the service may hold, by id: what GET /projects returns.
ServiceStates == UNION {[S -> ProjectNames] : S \in SUBSET ProjectIds}

\* str(project_id)
RECURSIVE Str(_)
Str(n) ==
    IF n < 10 THEN <<DigitChar(n)>>
    ELSE Str(n \div 10) \o <<DigitChar(n % 10)>>

\* for project in projects: if pid: PROJECT_CACHE[pid] = name
CacheAll(c, projects) ==
    [id \in (DOMAIN c) \cup {p \in DOMAIN projects : p # 0} |->
        IF id \in DOMAIN projects THEN projects[id] ELSE c[id]]

\* _get_project_name.  project_id 0 is a falsy id (None or 0); noCredential
\* says _get_headers() finds no credential and ends the run; outcome is what
\* becomes of the request; projects is the list the service returns.
GetProjectName(project_id, c, noCredential, outcome, projects) ==
    LET r == [ret |-> <<>>, cache |-> c, hit |-> FALSE, fetched |-> FALSE,
              exit |-> FALSE]
    IN  IF project_id = 0 THEN [r EXCEPT !.ret = <<"-">>]
        ELSE IF project_id \in DOMAIN c
        THEN [r EXCEPT !.ret = c[project_id], !.hit = TRUE]
        ELSE IF noCredential THEN [r EXCEPT !.exit = TRUE]
        ELSE IF outcome \in {"request_failed", "api_error"}
        THEN [r EXCEPT !.ret = Str(project_id)]
        ELSE IF DOMAIN projects = {}
        THEN [r EXCEPT !.ret = Str(project_id), !.fetched = TRUE]
        ELSE LET filled == CacheAll(c, projects)
             IN  [r EXCEPT !.ret = IF project_id \in DOMAIN filled
                                   THEN filled[project_id]
                                   ELSE Str(project_id),
                           !.cache = filled, !.fetched = TRUE]

\* One call of _get_project_name, from the row loop of _print_tasks or the
\* task loop of _filter_tasks_by_project_name.
LookupProjectName ==
    /\ pc \in {"idle", "rows"}
    /\ lookups < MaxLookups
    /\ \E project_id \in {0} \cup ProjectIds,
          outcome \in {"request_failed", "api_error", "ok"} :
          LET r == GetProjectName(project_id, cache,
                                  GetHeaders(None, platform, apiUp, store).exit,
                                  outcome, service)
          IN  /\ cache' = r.cache
              /\ fetches' = fetches + (IF r.fetched THEN 1 ELSE 0)
              /\ looked' = [id |-> project_id, ret |-> r.ret, hit |-> r.hit,
                            fetched |-> r.fetched,
                            list |-> IF r.fetched THEN service ELSE EmptyCache,
                            prev |-> cache]
              /\ pc' = IF r.exit THEN "done" ELSE "rows"
    /\ lookups' = lookups + 1
    /\ UNCHANGED <<platform, apiUp, store, last, dueVars, service>>

\* The loop over the tasks is over and the command returns.
EndOfRows ==
    /\ pc = "rows"
    /\ pc' = "done"
    /\ UNCHANGED <<platform, apiUp, store, last, dueVars, cacheVars>>

\* Another client adds, removes or renames projects while the command runs.
ServiceChanges ==
    /\ pc \in {"idle", "rows"}
    /\ \E s \in ServiceStates \ {service} : service' = s
    /\ UNCHANGED <<platform, apiUp, store, pc, last, dueVars,
                   cache, fetches, lookups, looked>>

\* A run on Windows, with or without a stored credential.
InitCache ==
    /\ platform = "nt"
    /\ apiUp = TRUE
    /\ store \in {EmptyStore,
                  WcmWriteToken("nt", TRUE, EmptyStore, <<"x">>, FALSE, TRUE).store}
    /\ pc = "idle"
    /\ last = BlankLast
    /\ tasks = <<>>
    /\ view = BlankView
    /\ service \in ServiceStates
    /\ FreshCache

NextCache ==
    \/ LookupProjectName
    \/ EndOfRows
    \/ ServiceChanges
    \/ Exit

SpecCache == InitCache /\ [][NextCache]_vars

(***************************************************************************)
(* Credential resolution.                                                  *)
(***************************************************************************)
Resolving == pc = "done" /\ last.op \in {"complete", "projects"}

\* C1: whenever the explicit override is non-empty after normalization, the
\* resolution yields the normalized override (and the header built from it),
\* whatever the store holds, and the store is not read during the resolution.
C1_ExplicitOverrideWins ==
    (Resolving /\ Truthy(NormalizeToken(last.token)))
        => /\ last.result = "sent"
           /\ last.cred = NormalizeToken(last.token)
           /\ last.auth = AuthScheme \o NormalizeToken(last.token)
           /\ last.storeReads = 0

\* An override was given while the store held a different credential.
C1_Witness ==
    /\ Resolving
    /\ Truthy(NormalizeToken(last.token))
    /\ Truthy(WcmReadToken(platform, apiUp, store))
    /\ WcmReadToken(platform, apiUp, store) # NormalizeToken(last.token)
    /\ last.result = "sent"

\* C2: when the explicit override normalizes to empty and the store has no
\* entry, is on the wrong platform or faults, the resolution ends the run with
\* sys.exit(1) and no request is sent; every request that is sent carries
\* "Bearer " followed by a non-empty credential.
C2_FailSoftTerminal ==
    /\ (Resolving /\ ~Truthy(NormalizeToken(last.token))
          /\ (platform # "nt" \/ ~apiUp \/ ~store.present))
        => (last.result = "exit" /\ last.auth = None /\ last.storeReads = 1)
    /\ (Resolving /\ last.result = "sent")
        => (Truthy(last.cred) /\ last.auth = AuthScheme \o last.cred)

\* A whitespace-only override on Windows with a faulting credential API.
C2_Witness ==
    /\ Resolving
    /\ platform = "nt" /\ ~apiUp
    /\ Truthy(last.token) /\ ~Truthy(NormalizeToken(last.token))
    /\ last.result = "exit"

\* C3: with no explicit override and an empty store, a credential in
\* TODOIST_API_TOKEN or TODOIST_TOKEN is what the resolution yields.
C3_EnvironmentOverride ==
    (Resolving /\ ~Truthy(NormalizeToken(last.token)) /\ ~store.present
       /\ Truthy(NormalizeToken(EnvToken(last.env))))
        => /\ last.result = "sent"
           /\ last.cred = NormalizeToken(EnvToken(last.env))

(***************************************************************************)
(* The token store.                                                        *)
(***************************************************************************)
Writing == pc = "done" /\ last.op = "set"

\* C4: a write without overwrite on a target that holds a secret fails with
\* "already stored" and leaves the entry as it was; a write with overwrite on
\* such a target succeeds and the next read returns the value it wrote.
C4_OverwriteProtection ==
    (Writing /\ last.prev.present /\ Truthy(NormalizeToken(last.token)))
        => /\ ~last.force => (last.result = "already_stored" /\ store = last.prev)
           /\ (last.force /\ last.credWriteOk)
                => /\ last.result = "stored"
                   /\ store.present
                   /\ WcmReadToken(platform, apiUp, store)
                        = DecodeUtf16le(store.blob)
                   /\ DecodeUtf16le(store.blob) = NormalizeToken(last.token)

\* C5: delete returns false on a target without a secret and leaves it empty;
\* on a target with one it returns true, after which a read returns absent and
\* a second delete returns false.
C5_Delete ==
    (pc = "done" /\ last.op = "clear")
        => /\ ~last.prev.present
                => (last.result = "not_found" /\ store = EmptyStore)
           /\ last.prev.present
                => /\ last.result = "deleted"
                   /\ WcmReadToken(platform, apiUp, store) = None
                   /\ ~WcmDeleteToken(platform, apiUp, store).ret

\* A stored secret was deleted.
C5_Witness ==
    /\ pc = "done" /\ last.op = "clear"
    /\ last.prev.present
    /\ last.result = "deleted"
    /\ ~store.present

\* C6: after every successful write of a credential c, the next read returns
\* exactly normalize(c).
C6_WriteReadRoundTrip ==
    (Writing /\ last.result = "stored")
        => WcmReadToken(platform, apiUp, store) = NormalizeToken(last.token)

\* Spellings of the prefix that differ in case alone.
PrefixCapitalizations == {BearerUpper, BearerLower, BearerCaps, BearerMixed}

\* C7: for every capitalization of the prefix followed by t, normalize returns
\* t trimmed, and absent when that is empty.
C7_CaseInsensitivePrefix ==
    (pc = "done" /\ last.op = "normalize")
        => \A p \in PrefixCapitalizations :
              StartsWith(LStrip(last.token), p)
                => last.cred = Strip(SubSeq(LStrip(last.token), Len(p) + 1,
                                            Len(LStrip(last.token))))

\* A credential as the data model wants it: not empty, no prefix left.
Clean(s) ==
    Truthy(s) /\ ~StartsWith(s, BearerUpper) /\ ~StartsWith(s, BearerLower)

\* C8: after any sequence of token set, token clear and resolutions, every
\* credential persisted in the store, returned by a read or placed in the
\* Authorization header is non-empty and begins with neither "Bearer " nor
\* "bearer ".
C8_CredentialInvariant ==
    /\ store.present => Clean(DecodeUtf16le(store.blob))
    /\ Truthy(WcmReadToken(platform, apiUp, store))
        => Clean(WcmReadToken(platform, apiUp, store))
    /\ (Resolving /\ last.result = "sent") => Clean(last.cred)

\* C16: a write fails as "store unavailable" off Windows, when the
\* credential normalizes to empty and when the credential API call fails, and
\* after every failed write ("store unavailable" or "already stored") the
\* entry of the target is exactly what it was before the call.
C16_RejectedWriteUntouched ==
    Writing =>
        /\ platform # "nt" => last.result = "not_windows"
        /\ (platform = "nt" /\ ~Truthy(NormalizeToken(last.token)))
              => last.result = "token_empty"
        /\ (platform = "nt" /\ Truthy(NormalizeToken(last.token))
               /\ (last.force \/ ~last.prev.present)
               /\ (~apiUp \/ ~last.credWriteOk))
              => last.result = "write_failed"
        /\ last.result \in {"not_windows", "token_empty", "write_failed",
                             "already_stored", "stored"}
        /\ last.result # "stored" => store = last.prev

\* A forced write over a stored secret failed in CredWriteW, and the secret
\* is still the one that was there.
C16_Witness ==
    /\ Writing
    /\ last.prev.present
    /\ last.force
    /\ last.result = "write_failed"
    /\ store = last.prev
    /\ DecodeUtf16le(store.blob) # NormalizeToken(last.token)

(***************************************************************************)
(* Due keys and the upcoming view.                                         *)
(***************************************************************************)
Fetched == pc = "done" /\ last.op = "upcoming" /\ tasks # <<>>

\* The keys of the groups that hold task i.
KeysOfTask(i) ==
    {view.groups[g].key : g \in {h \in DOMAIN view.groups :
        \E j \in DOMAIN view.groups[h].entries :
            view.groups[h].entries[j] = tasks[i]}}

\* C9: every task is grouped under the literal due.date when it has one,
\* whatever its due.datetime; else under the calendar date written in its
\* due.datetime when that is an ISO-8601 date-time (Z read as +00:00); else
\* (no due, neither field, or an unparseable due.datetime) under the absent key.
C9_DueKeyDerivation ==
    Fetched =>
        \A i \in DOMAIN tasks :
            LET due == tasks[i].due IN
            /\ KeysOfTask(i) =
                 {IF ~due.isNull /\ Truthy(due.date) THEN due.date
                  ELSE IF ~due.isNull /\ due.datetime \in ValidDatetimes
                  THEN SubSeq(due.datetime, 1, 10)
                  ELSE None}
            /\ (~due.isNull /\ due.date = None
                  /\ due.datetime = Day0501 \o At0900 \o Zulu)
                => KeysOfTask(i) = {Day0501}

\* One list holds a task whose date and date-time name different days, a task
\* with a date-time alone, and a task whose date-time is not a date.
C9_Witness ==
    /\ Fetched
    /\ \E i, j, k \in DOMAIN tasks :
          /\ tasks[i].due.date = Day0502
          /\ tasks[i].due.datetime = Day0501 \o At0800 \o Zulu
          /\ KeysOfTask(i) = {Day0502}
          /\ tasks[j].due.date = None
          /\ tasks[j].due.datetime = Day0501 \o At2330 \o West5
          /\ KeysOfTask(j) = {Day0501}
          /\ tasks[k].due.date = None
          /\ tasks[k].due.datetime = NotADate
          /\ KeysOfTask(k) = {None}

\* The places of task t among the rows shown.
RowsOf(t) ==
    {<<g, j>> \in (DOMAIN view.shown) \X (DOMAIN tasks) :
        j \in DOMAIN view.shown[g].entries /\ view.shown[g].entries[j] = t}

\* C10: when the upcoming view of a fetched list is printed, every task with a
\* due key is shown exactly once, under its key, no task without one is shown,
\* nothing else is shown, and the groups come in strictly ascending key order.
\* (A run that ends in sys.exit for want of a credential prints no view.)
C10_UpcomingPolicy ==
    (pc = "done" /\ last.op = "upcoming"
       /\ view.result \in {"rendered", "no_tasks", "no_dated_tasks"})
        => /\ \A i \in DOMAIN tasks :
                 Cardinality(RowsOf(tasks[i]))
                    = IF GetDueDayKey(tasks[i]) # None THEN 1 ELSE 0
           /\ \A g \in DOMAIN view.shown :
                 /\ view.shown[g].entries # <<>>
                 /\ \A j \in DOMAIN view.shown[g].entries :
                       /\ \E i \in DOMAIN tasks :
                             view.shown[g].entries[j] = tasks[i]
                       /\ GetDueDayKey(view.shown[g].entries[j])
                            = view.shown[g].key
           /\ \A g \in DOMAIN view.shown :
                 g < Len(view.shown)
                    => StrLess(view.shown[g].key, view.shown[g + 1].key)
           /\ view.result = "rendered" <=> view.shown # <<>>

\* Two day groups fetched in descending order and shown ascending, with an
\* undated task left out.
C10_Witness ==
    /\ pc = "done" /\ last.op = "upcoming"
    /\ view.result = "rendered"
    /\ Len(view.shown) = 2
    /\ view.groups[1].key = Day0502
    /\ view.shown[1].key = Day0501
    /\ \E i \in DOMAIN tasks : GetDueDayKey(tasks[i]) = None

\* The instant of a task that has a date-time alone.
HasInstantOnly(t) ==
    ~t.due.isNull /\ t.due.date = None /\ t.due.datetime \in ValidDatetimes

\* Two dues that fall on the same calendar day wherever the day is counted:
\* the same date-only day, or date-times alone that are one and the same
\* instant.
SameCalendarDay(a, b) ==
    \/ /\ ~a.due.isNull /\ ~b.due.isNull
       /\ Truthy(a.due.date) /\ a.due.date = b.due.date
       /\ a.due.datetime = None /\ b.due.datetime = None
    \/ /\ HasInstantOnly(a) /\ HasInstantOnly(b)
       /\ DueSortValue(a) = DueSortValue(b)

\* C11: any two fetched tasks whose due falls on the same calendar day are
\* put in the same group, under the same key, whether the day comes from a
\* date-only field or from a date-time, with a UTC or a non-UTC offset.
C11_SameDaySameKey ==
    Fetched =>
        \A i, j \in DOMAIN tasks :
            SameCalendarDay(tasks[i], tasks[j])
                => KeysOfTask(i) = KeysOfTask(j)

\* The group of the fetched tasks that is shown as group g, in fetch order.
FetchedGroup(g) == GroupOf(view.groups, view.shown[g].key).entries

\* Instants written out: 2024-05-01 08:00 and 09:00 UTC.
Instant0800 == <<Ordinal(2024, 5, 1), 8 * 3600, 0>>
Instant0900 == <<Ordinal(2024, 5, 1), 9 * 3600, 0>>

\* C12: every group shown is a permutation of the tasks fetched for its key,
\* in non-decreasing sort value, the sort value being that of due.datetime
\* when it has one (08:00Z before 09:00Z, and before the midnight UTC of a
\* later due.date beside it), and tasks of equal sort value stay in fetch
\* order.
C12_WithinGroupOrdering ==
    (pc = "done" /\ last.op = "upcoming") =>
        \A g \in DOMAIN view.shown :
            LET e == view.shown[g].entries IN
            /\ Len(e) = Len(FetchedGroup(g))
            /\ {e[j] : j \in DOMAIN e}
                 = {FetchedGroup(g)[j] : j \in DOMAIN FetchedGroup(g)}
            /\ \A j, k \in DOMAIN e :
                  j < k =>
                    /\ ~InstantLess(DueSortValueOf[e[k].due],
                                    DueSortValueOf[e[j].due])
                    /\ DueSortValueOf[e[j].due] = DueSortValueOf[e[k].due]
                          => e[j].id < e[k].id
            /\ \A j \in DOMAIN e :
                  /\ (~e[j].due.isNull /\ e[j].due.datetime = Day0501 \o At0800 \o Zulu)
                        => DueSortValueOf[e[j].due] = Instant0800
                  /\ (~e[j].due.isNull /\ e[j].due.datetime = Day0501 \o At0900 \o Zulu)
                        => DueSortValueOf[e[j].due] = Instant0900

\* Fetched as B (09:00Z), A (08:00Z) and a second task at 09:00Z, one group
\* is shown as A, B and then the second task at 09:00Z.
C12_Witness ==
    /\ pc = "done" /\ last.op = "upcoming"
    /\ view.result = "rendered"
    /\ \E g \in DOMAIN view.shown :
          LET e == view.shown[g].entries IN
          /\ Len(e) = 3
          /\ e[1].due = Due(None, Day0501 \o At0800 \o Zulu) /\ e[1].id = 2
          /\ e[2].due = Due(None, Day0501 \o At0900 \o Zulu) /\ e[2].id = 1
          /\ e[3].due = Due(Day0501, Day0501 \o At0900 \o Zulu) /\ e[3].id = 3

\* due.datetime is there and is no ISO-8601 date-time.
UnparseableDatetime(t) ==
    Truthy(DueDatetime(t)) /\ ~ParseForSort(DueDatetime(t)).ok

\* due.datetime is there and is an ISO-8601 date-time.
ValidDueInstant(t) ==
    Truthy(DueDatetime(t)) /\ ParseForSort(DueDatetime(t)).ok

\* C13: in every group shown, a task whose due.datetime is unparseable comes
\* after every task whose due.datetime is a valid instant, whatever due.date
\* the first one carries.
C13_UnparseableLast ==
    (pc = "done" /\ last.op = "upcoming") =>
        \A g \in DOMAIN view.shown :
            \A j, k \in DOMAIN view.shown[g].entries :
                (UnparseableDatetime(view.shown[g].entries[j])
                   /\ ValidDueInstant(view.shown[g].entries[k]))
                    => k < j

\* C17: in the view shown, no task of a later day group has an earlier sort
\* value than a task of an earlier day group, so the rows read from top to
\* bottom are in non-decreasing sort value.
C17_GroupsAgreeWithSort ==
    (pc = "done" /\ last.op = "upcoming") =>
        \A g, h \in DOMAIN view.shown :
            g < h =>
                \A j \in DOMAIN view.shown[g].entries,
                   k \in DOMAIN view.shown[h].entries :
                    ~InstantLess(DueSortValue(view.shown[h].entries[k]),
                                 DueSortValue(view.shown[g].entries[j]))

(***************************************************************************)
(* The project-name cache.                                                 *)
(***************************************************************************)
\* C14: in one run the project list is fetched from the service at most
\* once, whatever ids are looked up and whatever the first fetch returned, and
\* a fetch caches every project of the list it received.
C14_FetchOnce ==
    /\ fetches <= 1
    /\ looked.fetched
        => \A id \in DOMAIN looked.list :
              id \in DOMAIN cache /\ cache[id] = looked.list[id]

\* C15: a lookup never removes an entry of the cache and never changes one.
C15_NeverInvalidated ==
    (pc \in {"rows", "done"} /\ lookups > 0)
        => \A id \in DOMAIN looked.prev :
              id \in DOMAIN cache /\ cache[id] = looked.prev[id]

====
